---- MODULE Spec2Model ----
(***************************************************************************)
(* resize.py: the batch resizer.  Resize.run walks the discovered images,  *)
(* process_image plans a target size, resizes, and saves as JPEG at        *)
(* decreasing quality until the file fits the byte budget.                 *)
(***************************************************************************)
EXTENDS Integers, Sequences, FiniteSets, TLC

\* ---------------------------------------------------------------- bounds
MaxDim    == 9      \* source images are 1..MaxDim pixels wide and high
MaxBound  == 9      \* max_size_px ranges over -1..MaxBound
MaxSize   == 2      \* an encoded file is 1..MaxSize bytes
MaxImages == 2      \* images in the input folder
MaxRuns   == 2      \* invocations of the program, one after the other

\* ------------------------------------------------------- float arithmetic
\* Python's float is an IEEE-754 binary64: 53 significant bits, round to
\* nearest even.  A mantissa does not fit a model integer, so naturals are
\* little-endian sequences of LimbBits-bit limbs (no leading zero limb).
LimbBits == 15
LimbBase == 2^LimbBits
MantissaBits == 53

RECURSIVE BigFromInt(_)
BigFromInt(n) == IF n = 0 THEN <<>> ELSE <<n % LimbBase>> \o BigFromInt(n \div LimbBase)

RECURSIVE BigToInt(_)
BigToInt(x) == IF x = <<>> THEN 0 ELSE x[1] + LimbBase * BigToInt(Tail(x))

RECURSIVE BigNorm(_)
BigNorm(x) ==
    IF x = <<>> THEN x
    ELSE IF x[Len(x)] = 0 THEN BigNorm(SubSeq(x, 1, Len(x) - 1)) ELSE x

RECURSIVE BigMulAdd(_, _, _)
BigMulAdd(x, k, c) ==
    IF x = <<>> THEN BigFromInt(c)
    ELSE LET t == x[1] * k + c
         IN  <<t % LimbBase>> \o BigMulAdd(Tail(x), k, t \div LimbBase)

BigMul(x, k) == BigNorm(BigMulAdd(x, k, 0))

RECURSIVE BigAddC(_, _, _)
BigAddC(x, y, c) ==
    IF x = <<>> /\ y = <<>> THEN BigFromInt(c)
    ELSE LET xi == IF x = <<>> THEN 0 ELSE x[1]
             yi == IF y = <<>> THEN 0 ELSE y[1]
             t  == xi + yi + c
         IN  <<t % LimbBase>> \o BigAddC(IF x = <<>> THEN x ELSE Tail(x),
                                          IF y = <<>> THEN y ELSE Tail(y),
                                          t \div LimbBase)

BigAdd(x, y) == BigNorm(BigAddC(x, y, 0))

RECURSIVE BigSubB(_, _, _)
BigSubB(x, y, b) ==
    IF x = <<>> THEN <<>>
    ELSE LET yi == IF y = <<>> THEN 0 ELSE y[1]
             d  == x[1] - yi - b
         IN  <<d % LimbBase>> \o BigSubB(Tail(x), IF y = <<>> THEN y ELSE Tail(y),
                                          IF d < 0 THEN 1 ELSE 0)

BigSub(x, y) == BigNorm(BigSubB(x, y, 0))

RECURSIVE BigMulBig(_, _)
BigMulBig(x, y) ==
    IF x = <<>> \/ y = <<>> THEN <<>>
    ELSE BigAdd(BigMul(x, y[1]), BigNorm(<<0>> \o BigMulBig(x, Tail(y))))

RECURSIVE BigCmpFrom(_, _, _)
BigCmpFrom(x, y, i) ==
    IF i = 0 THEN 0
    ELSE IF x[i] > y[i] THEN 1
    ELSE IF x[i] < y[i] THEN -1
    ELSE BigCmpFrom(x, y, i - 1)

BigCmp(x, y) ==
    IF Len(x) > Len(y) THEN 1
    ELSE IF Len(x) < Len(y) THEN -1
    ELSE BigCmpFrom(x, y, Len(x))

RECURSIVE BitLen(_)
BitLen(n) == IF n = 0 THEN 0 ELSE 1 + BitLen(n \div 2)

BigBits(x) == IF x = <<>> THEN 0 ELSE LimbBits * (Len(x) - 1) + BitLen(x[Len(x)])

BigShl(x, s) ==
    IF x = <<>> THEN x
    ELSE BigMul([i \in 1..(s \div LimbBits) |-> 0] \o x, 2^(s % LimbBits))

RECURSIVE BigDivFrom(_, _, _, _)
BigDivFrom(x, i, r, k) ==
    IF i = 0 THEN <<>>
    ELSE LET t == r * LimbBase + x[i]
         IN  BigDivFrom(x, i - 1, t % k, k) \o <<t \div k>>

BigShr(x, s) ==
    IF s \div LimbBits >= Len(x) THEN <<>>
    ELSE LET y == SubSeq(x, (s \div LimbBits) + 1, Len(x))
         IN  BigNorm(BigDivFrom(y, Len(y), 0, 2^(s % LimbBits)))

BigOdd(x) == x # <<>> /\ x[1] % 2 = 1

\* m * 2^e rounded to MantissaBits bits, to nearest, ties to even
FRound(m, e) ==
    LET s == BigBits(m) - MantissaBits
    IN  IF s <= 0 THEN [m |-> m, e |-> e]
        ELSE LET q     == BigShr(m, s)
                 guard == BigOdd(BigShr(m, s - 1))
                 stick == BigShl(BigShr(m, s - 1), s - 1) # m
                 up    == guard /\ (stick \/ BigOdd(q))
                 r     == IF up THEN BigAdd(q, <<1>>) ELSE q
             IN  IF BigBits(r) > MantissaBits THEN [m |-> BigShr(r, 1), e |-> e + s + 1]
                 ELSE [m |-> r, e |-> e + s]

\* k more bits of the quotient: qr = <<quotient so far, 2 * remainder>>
RECURSIVE QuotBits(_, _, _)
QuotBits(qr, d, k) ==
    IF k = 0 THEN qr
    ELSE IF BigCmp(qr[2], d) >= 0
         THEN QuotBits(<<BigMulAdd(qr[1], 2, 1), BigMul(BigSub(qr[2], d), 2)>>, d, k - 1)
         ELSE QuotBits(<<BigMul(qr[1], 2), BigMul(qr[2], 2)>>, d, k - 1)

\* a float is [s |-> sign, m |-> mantissa, e |-> exponent]: s * m * 2^e
\* a float is [s |-> sign, m |-> mantissa, e |-> exponent]: s * m * 2^e
FromInt(n) ==
    [s |-> IF n < 0 THEN -1 ELSE 1, m |-> BigFromInt(IF n < 0 THEN -n ELSE n), e |-> 0]

\* a / b, correctly rounded (b # 0)
FDiv(a, b) ==
    IF a.m = <<>> THEN [s |-> a.s * b.s, m |-> <<>>, e |-> 0]
    ELSE LET la == BigBits(a.m)
             lb == BigBits(b.m)
             L  == IF la > lb THEN la ELSE lb
             d  == BigShl(b.m, L - lb)
             x0 == BigShl(a.m, L - la)
             lt == BigCmp(x0, d) < 0
             x  == IF lt THEN BigMul(x0, 2) ELSE x0
             sa == (L - la) + (IF lt THEN 1 ELSE 0)
             qr == QuotBits(<<<<>>, x>>, d, MantissaBits + 1)
             m  == BigMulAdd(qr[1], 2, IF qr[2] = <<>> THEN 0 ELSE 1)
             r  == FRound(m, a.e - b.e + (L - lb) - sa - MantissaBits - 1)
         IN  [s |-> a.s * b.s, m |-> r.m, e |-> r.e]

\* a * b, correctly rounded
FMul(a, b) ==
    LET r == FRound(BigMulBig(a.m, b.m), a.e + b.e)
    IN  [s |-> a.s * b.s, m |-> r.m, e |-> r.e]

\* int(f): truncation toward zero
FTrunc(f) == f.s * BigToInt(IF f.e >= 0 THEN BigShl(f.m, f.e) ELSE BigShr(f.m, -f.e))

\* ---------------------------------------------------------- the planner
Modes == {"LONGEST_EDGE", "SHORTEST_EDGE", "WIDTH", "HEIGHT"}

\* the planner with the LONGEST_EDGE comparison turned round
WidthGovernsSwapped(width, height, mode) ==
    CASE mode = "LONGEST_EDGE"  -> width < height
      [] mode = "SHORTEST_EDGE" -> width < height
      [] mode = "WIDTH"         -> TRUE
      [] OTHER                  -> FALSE

\* the branch taken: TRUE where new_width = max_size, FALSE where
\* new_height = max_size
WidthGoverns(width, height, mode) ==
    CASE mode = "LONGEST_EDGE"  -> width > height
      [] mode = "SHORTEST_EDGE" -> width < height
      [] mode = "WIDTH"         -> TRUE
      [] OTHER                  -> FALSE

_calculate_target_size(width, height, mode, max_size) ==
    LET aspect_ratio == FDiv(FromInt(width), FromInt(height))
    IN  IF WidthGoverns(width, height, mode)
        THEN <<max_size, FTrunc(FDiv(FromInt(max_size), aspect_ratio))>>
        ELSE <<FTrunc(FMul(FromInt(max_size), aspect_ratio)), max_size>>

NeedsResize(width, height, target_size) ==
    width > target_size[1] \/ height > target_size[2]

\* Image.resize refuses a size with a side below 1 (ValueError)
ResizeRaises(target_size) == target_size[1] < 1 \/ target_size[2] < 1

\* [target: what the planner returned, raised: resize threw, size: the
\* dimensions of the image handed on]
_resize_to_max_dimensions(width, height, mode, max_size) ==
    LET target_size == _calculate_target_size(width, height, mode, max_size)
    IN  IF NeedsResize(width, height, target_size)
        THEN [target |-> target_size, raised |-> ResizeRaises(target_size),
              size |-> target_size]
        ELSE [target |-> target_size, raised |-> FALSE, size |-> <<width, height>>]

\* ------------------------------------------------------ the quality search
StartQuality == 95
QualityStep  == 5
QualityFloor == 20

Qualities ==
    {q \in QualityFloor..StartQuality : (StartQuality - q) % QualityStep = 0}

\* the size check with < for <=
FitsBudgetStrict(size, budget) == size < budget
FitsBudget(size, budget) == size <= budget
NextQuality(q) == q - QualityStep
\* the floor check one step late
GiveUpLate(q) == q < QualityFloor - QualityStep
GiveUp(q) == q < QualityFloor

\* ------------------------------------------------------------------ state
VARIABLES
    resize_mode, max_size_px, max_bytes, skip_existing, delete_input,
    src,        \* image id -> the file in the input folder: its pixel size, and
                \* whether Image.open can decode it
    codec,      \* image id -> quality -> the size image.save produces, 0 where
                \* the codec has not been asked yet
    inputs,     \* the ids whose input file exists
    outputs,    \* image id -> the file at its destination path
    pc,         \* "init" (constructed), "loop" (run's for), "encode" (the
                \* while of _reduce_file_size_and_save), "done" (run returned)
    images,     \* run's list of discovered images
    idx,        \* position of run's loop in images
    runs,       \* invocations so far
    quality,    \* _reduce_file_size_and_save's quality
    resized,    \* size of the image _resize_to_max_dimensions returned
    target,     \* what _calculate_target_size last returned
    last,       \* the image it was last called for (0: never called)
    tried,      \* image id -> the qualities saved in this run, in order
    result,     \* image id -> "none", "skipped", "ok", "error" in this run
    cause,      \* image id -> the call that raised: "open", "resize", "budget"
    calls,      \* image id -> process_image calls in this run
    errors,     \* log.error calls in this run
    before      \* outputs as the run found them

vars ==
    <<resize_mode, max_size_px, max_bytes, skip_existing, delete_input, src,
      codec, inputs, outputs, pc, images, idx, runs, quality, resized, target,
      last, tried, result, cause, calls, errors, before>>

settings == <<resize_mode, max_size_px, max_bytes, src>>

NoFile == [quality |-> 0, size |-> 0, dims |-> <<0, 0>>]

Ids == DOMAIN src

Source(w, h, c) == [width |-> w, height |-> h, corrupt |-> c]

\* a codec whose output is 1 byte up to quality knee and MaxSize bytes above
KneeCurve(knee) == [q \in Qualities |-> IF q > knee THEN MaxSize ELSE 1]

Unencoded == [q \in Qualities |-> 0]

\* the state Resize.__init__ leaves, over n input files and an empty output
\* folder
Constructed(n) ==
    /\ inputs = 1..n
    /\ outputs = [i \in 1..n |-> NoFile]
    /\ before = [i \in 1..n |-> NoFile]
    /\ pc = "init"
    /\ images = <<>>
    /\ idx = 0
    /\ runs = 1
    /\ quality = 0
    /\ resized = <<0, 0>>
    /\ target = <<0, 0>>
    /\ last = 0
    /\ tried = [i \in 1..n |-> <<>>]
    /\ result = [i \in 1..n |-> "none"]
    /\ cause = [i \in 1..n |-> "none"]
    /\ calls = [i \in 1..n |-> 0]
    /\ errors = 0

\* the input folders of the batch runs: a decodable image that fits at once,
\* one that fits at the second quality, an undecodable file, and an image no
\* quality brings under the budget
Catalogue ==
    { [src |-> Source(4, 2, FALSE), codec |-> KneeCurve(StartQuality)],
      [src |-> Source(2, 4, FALSE), codec |-> KneeCurve(StartQuality - QualityStep)],
      [src |-> Source(4, 2, TRUE),  codec |-> KneeCurve(StartQuality)],
      [src |-> Source(4, 2, FALSE), codec |-> KneeCurve(0)] }

Init ==
    /\ resize_mode = "LONGEST_EDGE"
    /\ max_size_px = 2
    /\ max_bytes = 1
    /\ skip_existing \in BOOLEAN
    /\ delete_input \in BOOLEAN
    /\ \E n \in 1..MaxImages :
          \E kind \in [1..n -> Catalogue] :
             /\ src = [i \in 1..n |-> kind[i].src]
             /\ codec = [i \in 1..n |-> kind[i].codec]
             /\ Constructed(n)

\* one image of every size, under every mode and bound (the constructor's
\* default flags)
InitPlan ==
    /\ resize_mode \in Modes
    /\ max_size_px \in (-1)..MaxBound
    /\ max_bytes = 1
    /\ skip_existing = FALSE
    /\ delete_input = FALSE
    /\ src \in [{1} -> {Source(w, h, FALSE) : w \in 1..MaxDim, h \in 1..MaxDim}]
    /\ codec \in [{1} -> {KneeCurve(StartQuality), KneeCurve(0)}]
    /\ Constructed(1)

\* one image, every budget, and a codec free to answer any size at any quality
InitEnc ==
    /\ resize_mode = "LONGEST_EDGE"
    /\ max_size_px = 1
    /\ max_bytes \in 1..MaxSize
    /\ skip_existing \in BOOLEAN
    /\ delete_input \in BOOLEAN
    /\ src = [i \in {1} |-> Source(2, 2, FALSE)]
    /\ codec = [i \in {1} |-> Unencoded]
    /\ Constructed(1)

\* ---------------------------------------------------------------- actions
RECURSIVE Ascending(_)
Ascending(S) ==
    IF S = {} THEN <<>>
    ELSE LET m == CHOOSE x \in S : \A y \in S : x <= y
         IN  <<m>> \o Ascending(S \ {m})

\* Resize.run up to its for loop: the images of the input folder
run ==
    /\ pc = "init"
    /\ pc' = "loop"
    /\ images' = Ascending(inputs)
    /\ idx' = 1
    /\ before' = outputs
    /\ tried' = [i \in Ids |-> <<>>]
    /\ result' = [i \in Ids |-> "none"]
    /\ cause' = [i \in Ids |-> "none"]
    /\ calls' = [i \in Ids |-> 0]
    /\ errors' = 0
    /\ UNCHANGED <<settings, skip_existing, delete_input, codec, inputs, outputs,
                   runs, quality, resized, target, last>>

\* the exception ends the batch instead of the image
AbortBatch(k) == Len(images) + 1

\* where run's loop goes after process_image caught an exception
AfterError(k) == k + 1

\* the except clause of process_image, for image i and the call that raised
Caught(i, what) ==
    /\ result' = [result EXCEPT ![i] = "error"]
    /\ cause' = [cause EXCEPT ![i] = what]
    /\ errors' = errors + 1
    /\ idx' = AfterError(idx)
    /\ pc' = "loop"

\* process_image up to the call of _reduce_file_size_and_save
process_image ==
    /\ pc = "loop"
    /\ idx <= Len(images)
    /\ LET i == images[idx]
           s == src[i]
       IN  /\ calls' = [calls EXCEPT ![i] = @ + 1]
           /\ IF skip_existing /\ outputs[i] # NoFile
              THEN /\ result' = [result EXCEPT ![i] = "skipped"]
                   /\ inputs' = IF delete_input THEN inputs \ {i} ELSE inputs
                   /\ idx' = idx + 1
                   /\ UNCHANGED <<pc, cause, errors, quality, resized, target, last>>
              ELSE IF s.corrupt
              THEN /\ Caught(i, "open")
                   /\ UNCHANGED <<inputs, quality, resized, target, last>>
              ELSE \E r \in {_resize_to_max_dimensions(s.width, s.height, resize_mode,
                                                   max_size_px)} :
                       /\ target' = r.target
                       /\ last' = i
                       /\ IF r.raised
                          THEN /\ Caught(i, "resize")
                               /\ UNCHANGED <<inputs, quality, resized>>
                          ELSE /\ resized' = r.size
                               /\ quality' = StartQuality
                               /\ pc' = "encode"
                               /\ UNCHANGED <<inputs, idx, result, cause, errors>>
    /\ UNCHANGED <<settings, skip_existing, delete_input, codec, outputs, images,
                   runs, tried, before>>

\* one turn of the while of _reduce_file_size_and_save and, where it ends the
\* loop, the rest of process_image
_reduce_file_size_and_save ==
    /\ pc = "encode"
    /\ LET i == images[idx]
       IN  \E size \in 1..MaxSize :
              /\ codec[i][quality] \in {0, size}
              /\ codec' = [codec EXCEPT ![i][quality] = size]
              /\ outputs' = [outputs EXCEPT ![i] =
                                [quality |-> quality, size |-> size, dims |-> resized]]
              /\ tried' = [tried EXCEPT ![i] = Append(@, quality)]
              /\ IF FitsBudget(size, max_bytes)
                 THEN /\ inputs' = IF delete_input THEN inputs \ {i} ELSE inputs
                      /\ result' = [result EXCEPT ![i] = "ok"]
                      /\ idx' = idx + 1
                      /\ pc' = "loop"
                      /\ UNCHANGED <<quality, cause, errors>>
                 ELSE IF GiveUp(NextQuality(quality))
                 THEN /\ Caught(i, "budget")
                      /\ quality' = NextQuality(quality)
                      /\ UNCHANGED inputs
                 ELSE /\ quality' = NextQuality(quality)
                      /\ UNCHANGED <<inputs, result, cause, errors, idx, pc>>
    /\ UNCHANGED <<settings, skip_existing, delete_input, images, runs, resized,
                   target, last, calls, before>>

\* run's for loop is exhausted and run returns
Finish ==
    /\ pc = "loop"
    /\ idx > Len(images)
    /\ pc' = "done"
    /\ UNCHANGED <<settings, skip_existing, delete_input, codec, inputs, outputs,
                   images, idx, runs, quality, resized, target, last, tried,
                   result, cause, calls, errors, before>>

\* the program is started again on the same folders, with the same limits and
\* any flags
Relaunch ==
    /\ pc = "done"
    /\ runs < MaxRuns
    /\ runs' = runs + 1
    /\ pc' = "init"
    /\ skip_existing' \in BOOLEAN
    /\ delete_input' \in BOOLEAN
    /\ UNCHANGED <<settings, codec, inputs, outputs, images, idx, quality, resized,
                   target, last, tried, result, cause, calls, errors, before>>

NextOnce == run \/ process_image \/ _reduce_file_size_and_save \/ Finish

Next == run \/ process_image \/ _reduce_file_size_and_save \/ Finish \/ Relaunch

Spec == Init /\ [][Next]_vars

SpecPlan == InitPlan /\ [][NextOnce]_vars

SpecEnc == InitEnc /\ [][NextOnce]_vars

\* ------------------------------------------------------------- properties
Discovered == {images[k] : k \in 1..Len(images)}

Failed == {i \in Discovered : result[i] = "error"}

\* the highest quality of the search whose encoding fits the budget
Fitting(i) == {q \in Qualities : codec[i][q] >= 1 /\ codec[i][q] <= max_bytes}
BestQuality(i) == CHOOSE q \in Fitting(i) : \A p \in Fitting(i) : p <= q

MaxAttempts == (StartQuality - QualityFloor) \div QualityStep + 1

\* C1: when the search succeeds, the file at the destination is the encoding
\* at the highest quality of 95, 90, ..., 20 that fits the budget (every
\* higher quality was encoded and found too big), and it fits; a first
\* encoding that fits is taken after that one attempt.
C1_HighestFittingQuality ==
    \A i \in Ids :
       result[i] = "ok" =>
          /\ outputs[i].quality \in Qualities
          /\ outputs[i].size = codec[i][outputs[i].quality]
          /\ outputs[i].size <= max_bytes
          /\ \A q \in Qualities : q > outputs[i].quality => codec[i][q] > max_bytes
          /\ (codec[i][StartQuality] <= max_bytes =>
                 /\ outputs[i].quality = StartQuality
                 /\ tried[i] = <<StartQuality>>)

C1_Witness ==
    \E i \in Ids : result[i] = "ok" /\ outputs[i].quality = QualityFloor

\* C2: on an error path nothing was written to the destination and no file
\* is left there.
C2_NoWriteOnError ==
    \A i \in Ids : result[i] = "error" => outputs[i] = NoFile /\ tried[i] = <<>>

\* C3: for a positive bound the planner returns a width and a height of at
\* least 1.
C3_PlanAtLeastOne ==
    (last # 0 /\ max_size_px >= 1) => (target[1] >= 1 /\ target[2] >= 1)

\* the reference of C4: the governing axis (width on a tie) is the bound, the
\* other is bound * other / governing, truncated
PlanWidthGoverns(width, height, mode) ==
    CASE mode = "LONGEST_EDGE"  -> width >= height
      [] mode = "SHORTEST_EDGE" -> width <= height
      [] mode = "WIDTH"         -> TRUE
      [] OTHER                  -> FALSE

PlanReference(width, height, mode, bound) ==
    IF PlanWidthGoverns(width, height, mode)
    THEN <<bound, (bound * height) \div width>>
    ELSE <<(bound * width) \div height, bound>>

\* C4: for a positive bound the planner's result is the reference.
C4_PlanEqualsReference ==
    (last # 0 /\ max_size_px >= 1) =>
        target = PlanReference(src[last].width, src[last].height, resize_mode,
                               max_size_px)

\* C5: the image the resize step returns is no wider and no higher than the
\* source, and is the source unchanged when the planned target is not smaller
\* than the source in the governing axis.
C5_NeverUpsizes ==
    (pc = "encode" /\ max_size_px >= 1) =>
        LET s  == src[images[idx]]
            wg == PlanWidthGoverns(s.width, s.height, resize_mode)
        IN  /\ resized[1] <= s.width
            /\ resized[2] <= s.height
            /\ (IF wg THEN target[1] >= s.width ELSE target[2] >= s.height)
                  => resized = <<s.width, s.height>>

GoverningEdge(dims, mode) ==
    CASE mode = "LONGEST_EDGE"  -> IF dims[1] >= dims[2] THEN dims[1] ELSE dims[2]
      [] mode = "SHORTEST_EDGE" -> IF dims[1] <= dims[2] THEN dims[1] ELSE dims[2]
      [] mode = "WIDTH"         -> dims[1]
      [] OTHER                  -> dims[2]

\* C6: an image processed to success under a positive bound has its governing
\* edge within the pixel bound and its file within the byte budget.
C6_BothConstraints ==
    \A i \in Ids :
       (result[i] = "ok" /\ max_size_px >= 1) =>
          /\ outputs[i] # NoFile
          /\ GoverningEdge(outputs[i].dims, resize_mode) <= max_size_px
          /\ outputs[i].size <= max_bytes

C6_Witness ==
    \E i \in Ids :
       /\ result[i] = "ok"
       /\ max_size_px >= 1
       /\ outputs[i].dims # <<src[i].width, src[i].height>>
       /\ resize_mode = "SHORTEST_EDGE"

\* C7: for a bound <= 0 the planner returns no dimensions, and the image
\* fails with an error of its own kind (neither the codec's nor the budget's).
C7_InvalidBound ==
    max_size_px <= 0 =>
        /\ last = 0
        /\ \A i \in Ids : (result[i] = "error" /\ ~src[i].corrupt) => cause[i] = "bound"

\* C8 as claimed: at most (95 - 20) / 5 = 15 encodings, each 5 below the one
\* before, from 95.
C8_AtMostFifteenAttempts ==
    \A i \in Ids :
       /\ Len(tried[i]) <= (StartQuality - QualityFloor) \div QualityStep
       /\ \A k \in 1..Len(tried[i]) : tried[i][k] = StartQuality - QualityStep * (k - 1)

\* C8: the search encodes at 95, 90, ... each 5 below the one before, at most
\* 16 times, and after the 16th it has ended in success or in the budget
\* error.
C8_BoundedSearch ==
    \A i \in Ids :
       /\ Len(tried[i]) <= MaxAttempts
       /\ \A k \in 1..Len(tried[i]) : tried[i][k] = StartQuality - QualityStep * (k - 1)
       /\ Len(tried[i]) = MaxAttempts => result[i] \in {"ok", "error"}
       /\ (pc = "encode" /\ i = images[idx]) => Len(tried[i]) < MaxAttempts

C8_Witness ==
    \E i \in Ids :
       Len(tried[i]) = MaxAttempts /\ result[i] = "error" /\ cause[i] = "budget"

\* C9: a run in which exactly one image fails has called process_image once
\* for every discovered image, logged one error, and left every other image
\* with the outcome it has on its own: skipped if the flag and its earlier
\* output say so, else saved at its own highest fitting quality.
C9_BatchIsolation ==
    (pc = "done" /\ Cardinality(Failed) = 1) =>
        /\ errors = 1
        /\ \A j \in Discovered :
              /\ calls[j] = 1
              /\ j \notin Failed =>
                    IF skip_existing /\ before[j] # NoFile
                    THEN result[j] = "skipped" /\ outputs[j] = before[j]
                    ELSE /\ result[j] = "ok"
                         /\ outputs[j].quality = BestQuality(j)
                         /\ outputs[j].size <= max_bytes

C9_Witness ==
    /\ pc = "done"
    /\ Len(images) >= 2
    /\ Failed = {images[1]}
    /\ cause[images[1]] = "budget"
    /\ \E j \in Discovered : result[j] = "ok"

\* C10: an input file is deleted only when a file within the budget is at its
\* destination, and never in a run in which its processing raised.
C10_DeleteOnlyIfOutputFits ==
    [][\A i \in inputs \ inputs' :
          /\ outputs'[i] # NoFile
          /\ outputs'[i].size <= max_bytes
          /\ result'[i] # "error"]_vars

====
